---- MODULE Spec2Model ----
(***************************************************************************)
(* Bell schedule generator (src/calendar_generator.py).                    *)
(*                                                                         *)
(* main reads the input rows one after the other; for every weekday row    *)
(* with an integer rotation number it builds a RotationDay, asks it for    *)
(* its events (create_blocks) and writes one CSV row per event.  The model *)
(* follows one run of main: the rows are drawn from a bounded set when     *)
(* they are read, Python's list slicing, list.insert, indexing and int()   *)
(* are modelled with their exceptions, and an uncaught exception ends the  *)
(* run (pc = "aborted").                                                   *)
(***************************************************************************)
EXTENDS Integers, Sequences, FiniteSets, TLC

VARIABLES pc, remaining, row, day, rotation, events, err, written

vars == <<pc, remaining, row, day, rotation, events, err, written>>

(***************************************************************************)
(* Bounds of the model.                                                    *)
(***************************************************************************)
\* number of input rows after the header
MaxRows == 2
\* the day-of-month fields range over 0..MaxDay of July 2024, whose first day
\* is a Monday (day 0 is malformed)
MaxDay == 6
\* the integer rotation-number fields range over -MaxNumber..MaxNumber
MaxNumber == 7
\* number of all-day title columns of a row
MaxTitles == 2

(***************************************************************************)
(* Program constants.                                                      *)
(***************************************************************************)
BLOCKS == <<"A Block", "G Block", "F Block", "E Block", "D Block",
            "C Block", "B Block">>

N == Len(BLOCKS)

\* a time of day, datetime.time(hour, minute)
Time(h, m) == [hour |-> h, minute |-> m]

WED_TIMES ==
    << <<Time(7, 55), Time(8, 10)>>,
       <<Time(8, 10), Time(8, 55)>>,
       <<Time(9, 0), Time(10, 10)>>,
       <<Time(10, 10), Time(10, 25)>>,
       <<Time(10, 25), Time(11, 10)>>,
       <<Time(11, 15), Time(11, 55)>>,
       <<Time(12, 0), Time(12, 30)>>,
       <<Time(12, 30), Time(13, 0)>>,
       <<Time(13, 5), Time(13, 50)>>,
       <<Time(13, 55), Time(14, 40)>> >>

REG_TIMES ==
    << <<Time(7, 55), Time(8, 10)>>,
       <<Time(8, 10), Time(9, 0)>>,
       <<Time(9, 5), Time(10, 15)>>,
       <<Time(10, 15), Time(10, 30)>>,
       <<Time(10, 30), Time(11, 20)>>,
       <<Time(11, 25), Time(12, 5)>>,
       <<Time(12, 10), Time(12, 50)>>,
       <<Time(12, 50), Time(13, 25)>>,
       <<Time(13, 25), Time(14, 15)>>,
       <<Time(14, 20), Time(15, 10)>>,
       <<Time(15, 10), Time(15, 40)>> >>

MS_ACTIVITIES == <<"Advisory", "Tutorial", "MFW", "Tutorial", "Committees">>

US_ACTIVITIES == <<"Advisory", "MFW", "Academic Help", "Activity Period", "MFW">>

(***************************************************************************)
(* Python lists.  A list is a sequence; Python position p is index p + 1.  *)
(* An omitted slice bound (None) is the empty set, a given bound x is {x}. *)
(***************************************************************************)
None == {}

Some(x) == {x}

\* a slice bound brought into range (PySlice_AdjustIndices)
AdjustIndex(len, v, step) ==
    IF v < 0
    THEN IF v + len < 0 THEN (IF step < 0 THEN -1 ELSE 0) ELSE v + len
    ELSE IF v >= len THEN (IF step < 0 THEN len - 1 ELSE len) ELSE v

SliceStart(len, start, step) ==
    IF start = None
    THEN IF step < 0 THEN len - 1 ELSE 0
    ELSE AdjustIndex(len, CHOOSE v \in start : TRUE, step)

SliceStop(len, stop, step) ==
    IF stop = None
    THEN IF step < 0 THEN -1 ELSE len
    ELSE AdjustIndex(len, CHOOSE v \in stop : TRUE, step)

SliceLength(start, stop, step) ==
    IF step < 0
    THEN IF stop < start THEN ((start - stop - 1) \div (-step)) + 1 ELSE 0
    ELSE IF start < stop THEN ((stop - start - 1) \div step) + 1 ELSE 0

\* seq[start:stop:step]
PySlice(seq, start, stop, step) ==
    LET len == Len(seq)
        s == SliceStart(len, start, step)
        e == SliceStop(len, stop, step)
        n == SliceLength(s, e, step)
    IN [i \in 1..n |-> seq[s + (i - 1) * step + 1]]

\* seq.insert(index, x): the index is clamped, never an error
ListInsert(seq, index, x) ==
    LET len == Len(seq)
        j == IF index < 0
             THEN (IF index + len < 0 THEN 0 ELSE index + len)
             ELSE (IF index > len THEN len ELSE index)
    IN SubSeq(seq, 1, j) \o <<x>> \o SubSeq(seq, j + 1, len)

\* seq[index] raises IndexError unless -len <= index < len
IndexInRange(seq, index) == -Len(seq) <= index /\ index < Len(seq)

PyIndex(seq, index) ==
    IF index < 0 THEN seq[Len(seq) + index + 1] ELSE seq[index + 1]

(***************************************************************************)
(* Dates.  A datetime is [ordinal, hour, minute], ordinal being the        *)
(* proleptic Gregorian day number (date.toordinal()).  A date field of the *)
(* input is its three numbers month/day/year as strptime("%m/%d/%Y") reads *)
(* them; strptime raises ValueError when they do not name a day.           *)
(***************************************************************************)
IsLeap(year) == year % 4 = 0 /\ (year % 100 # 0 \/ year % 400 = 0)

DaysInMonth(year, month) ==
    IF month = 2 THEN (IF IsLeap(year) THEN 29 ELSE 28)
    ELSE IF month \in {4, 6, 9, 11} THEN 30 ELSE 31

RECURSIVE DaysBeforeMonth(_, _)
DaysBeforeMonth(year, month) ==
    IF month = 1 THEN 0
    ELSE DaysBeforeMonth(year, month - 1) + DaysInMonth(year, month - 1)

DaysBeforeYear(year) ==
    LET y == year - 1
    IN y * 365 + (y \div 4) - (y \div 100) + (y \div 400)

DateFieldOk(field) ==
    /\ field.year \in 1..9999
    /\ field.month \in 1..12
    /\ field.day \in 1..DaysInMonth(field.year, field.month)

\* datetime.datetime.strptime(row[0], "%m/%d/%Y") of a well-formed field
Strptime(field) ==
    [ordinal |-> DaysBeforeYear(field.year)
                 + DaysBeforeMonth(field.year, field.month) + field.day,
     hour |-> 0, minute |-> 0]

\* date.weekday(): Monday is 0, Sunday is 6
Weekday(date) == (date.ordinal + 6) % 7

\* datetime.datetime.combine(date, time)
Combine(date, time) ==
    [ordinal |-> date.ordinal, hour |-> time.hour, minute |-> time.minute]

(***************************************************************************)
(* Numbers as text.  A rotation-number field is a sequence of characters;  *)
(* int() reads an optional sign followed by decimal digits and raises      *)
(* ValueError on anything else.                                            *)
(***************************************************************************)
Digits == <<"0", "1", "2", "3", "4", "5", "6", "7", "8", "9">>

DigitChars == {Digits[i] : i \in 1..10}

DigitValue(c) == (CHOOSE i \in 1..10 : Digits[i] = c) - 1

RECURSIVE DigitsValue(_)
DigitsValue(text) ==
    IF text = <<>> THEN 0
    ELSE 10 * DigitsValue(SubSeq(text, 1, Len(text) - 1))
         + DigitValue(text[Len(text)])

IsDigits(text) == Len(text) > 0 /\ \A i \in 1..Len(text) : text[i] \in DigitChars

\* whether int(text) returns
IntOk(text) ==
    \/ IsDigits(text)
    \/ Len(text) > 1 /\ text[1] \in {"-", "+"} /\ IsDigits(Tail(text))

\* int(text) of a text int() accepts
IntParse(text) ==
    IF text[1] = "-" THEN -DigitsValue(Tail(text))
    ELSE IF text[1] = "+" THEN DigitsValue(Tail(text))
    ELSE DigitsValue(text)

\* str(number)
PyStr(number) == ToString(number)

(***************************************************************************)
(* Event.                                                                  *)
(***************************************************************************)
Event(name, start, end, all_day) ==
    [name |-> name, start |-> start, end |-> end, all_day |-> all_day]

(***************************************************************************)
(* RotationDay.                                                            *)
(***************************************************************************)
\* _get_block_rotation without the decrement of line 201
GetBlockRotationNoDecrement(day_number) ==
    LET d == day_number
    IN PySlice(BLOCKS, Some(d), None, -1)
       \o PySlice(BLOCKS, Some(-1), Some(d + 1), -1)

\* RotationDay._get_block_rotation
GetBlockRotation(day_number) ==
    LET d == day_number - 1
    IN PySlice(BLOCKS, Some(d), None, -1)
       \o PySlice(BLOCKS, Some(-1), Some(d + 1), -1)

\* the all_day_events list after lines 142-149
AllDayTitles(day_number, is_open, all_day_events) ==
    IF is_open
    THEN Append(all_day_events, "Day " \o PyStr(day_number))
    ELSE all_day_events

\* the splice with the MS-lunch period inserted before the US-lunch period
SplicePeriodsMsLunchFirst(blocks, weekday) ==
    LET b1 == ListInsert(blocks, 0, "MS Advisory | US Morning Help")
        b2 == IF weekday # 2
              THEN Append(b1, "MS Electives | US Academic Help")
              ELSE b1
        b3 == ListInsert(b2, 5, "MS Lunch | US " \o PyIndex(US_ACTIVITIES, weekday))
        b4 == ListInsert(b3, 5, "US Lunch | MS " \o PyIndex(MS_ACTIVITIES, weekday))
    IN ListInsert(b4, 3, "Break")

\* the period list built by lines 152-166 from the rotation
SplicePeriods(blocks, weekday) ==
    LET b1 == ListInsert(blocks, 0, "MS Advisory | US Morning Help")
        b2 == IF weekday # 2
              THEN Append(b1, "MS Electives | US Academic Help")
              ELSE b1
        b3 == ListInsert(b2, 5, "US Lunch | MS " \o PyIndex(MS_ACTIVITIES, weekday))
        b4 == ListInsert(b3, 5, "MS Lunch | US " \o PyIndex(US_ACTIVITIES, weekday))
    IN ListInsert(b4, 3, "Break")

\* RotationDay.__init__: the object after construction.  The activity
\* tables are indexed by the weekday, so the date is a weekday (main skips
\* the weekends before it constructs a RotationDay).
RotationDayInit(date, day_number, is_open, all_day_events) ==
    [date |-> date,
     day_number |-> day_number,
     is_open |-> is_open,
     all_day_events |-> AllDayTitles(day_number, is_open, all_day_events),
     is_wednesday |-> (Weekday(date) = 2),
     blocks |-> SplicePeriods(GetBlockRotation(day_number), Weekday(date))]

\* the time table get_event_times uses
TimesOf(d) == IF ~d.is_wednesday THEN REG_TIMES ELSE WED_TIMES

\* get_event_times with start and end of the table entry taken in the
\* wrong order
GetEventTimesSwapped(d, block_num) ==
    LET pair == PyIndex(IF ~d.is_wednesday THEN REG_TIMES ELSE WED_TIMES,
                        block_num)
    IN <<Combine(d.date, pair[2]), Combine(d.date, pair[1])>>

\* RotationDay.get_event_times, for a block_num inside the table
GetEventTimes(d, block_num) ==
    LET pair == PyIndex(TimesOf(d), block_num)
    IN <<Combine(d.date, pair[1]), Combine(d.date, pair[2])>>

\* the all-day events create_blocks makes first: one per non-empty title
AllDayEvents(d) ==
    LET kept == SelectSeq(d.all_day_events, LAMBDA t : t # "")
    IN [i \in 1..Len(kept) |-> Event(kept[i], d.date, d.date, TRUE)]

\* the timed events create_blocks makes for positions 0..len(blocks)-1
TimedEvents(d) ==
    [i \in 1..Len(d.blocks) |->
        LET times == GetEventTimes(d, i - 1)
        IN Event(d.blocks[i], times[1], times[2], FALSE)]

\* create_blocks without the early return of lines 228-229
CreateBlocksRaisesWhenClosed(d) ==
    \E num \in 0..(Len(d.blocks) - 1) : ~IndexInRange(TimesOf(d), num)

\* create_blocks raises IndexError when it reaches a position the time
\* table does not have (the test of line 234 is never true inside the loop)
CreateBlocksRaises(d) ==
    /\ d.is_open
    /\ \E num \in 0..(Len(d.blocks) - 1) : ~IndexInRange(TimesOf(d), num)

\* the list create_blocks returns when it does not raise
CreateBlocks(d) ==
    IF ~d.is_open THEN AllDayEvents(d) ELSE AllDayEvents(d) \o TimedEvents(d)

(***************************************************************************)
(* The input rows main can read.  A row is its date field, its open and    *)
(* special-event fields, its rotation-number field (number is <<>> when    *)
(* the row ends before that column, else the one text of the column) and   *)
(* the title columns after it.                                             *)
(***************************************************************************)
RECURSIVE NatText(_)
NatText(n) ==
    IF n < 10 THEN <<Digits[n + 1]>>
    ELSE NatText(n \div 10) \o <<Digits[(n % 10) + 1]>>

\* the decimal text of an integer, as the input file holds it
DecimalText(n) == IF n < 0 THEN <<"-">> \o NatText(-n) ELSE NatText(n)

DateFields == [month : {7}, day : 0..MaxDay, year : {2024}]

Flags == {"TRUE", "FALSE"}

NumberTexts ==
    {DecimalText(n) : n \in (-MaxNumber)..MaxNumber} \cup {<<>>, <<"x">>}

Titles == {"", "PSAT", "Community Day"}

TitleLists == UNION {[1..n -> Titles] : n \in 0..MaxTitles}

Rows ==
    [date : DateFields, open : Flags, special : Flags,
     number : {<<t>> : t \in NumberTexts}, titles : TitleLists]
    \cup [date : DateFields, open : Flags, special : Flags,
          number : {<<>>}, titles : {<<>>}]

\* the values of main's locals before the first row and between two rows
NoRow ==
    [date |-> [month |-> 0, day |-> 0, year |-> 0], open |-> "", special |-> "",
     number |-> <<>>, titles |-> <<>>]

NoDay ==
    [date |-> [ordinal |-> 0, hour |-> 0, minute |-> 0], day_number |-> 0,
     is_open |-> FALSE, all_day_events |-> <<>>, is_wednesday |-> FALSE,
     blocks |-> <<>>]

(***************************************************************************)
(* main.  pc is "loop" at the head of the for loop, "constructed" after    *)
(* line 279, "created" when create_blocks has returned, "aborted" when an  *)
(* exception left main and "done" when the rows are exhausted.             *)
(***************************************************************************)
Init ==
    /\ pc = "loop"
    /\ remaining \in 1..MaxRows
    /\ row = NoRow
    /\ day = NoDay
    /\ rotation = <<>>
    /\ events = <<>>
    /\ err = "none"
    /\ written = 0

\* is_open_val of line 278
IsOpenVal(r) == r.open = "TRUE" /\ ~(r.special = "TRUE")

\* the head of the for loop with a row left to read
AtRow == pc = "loop" /\ remaining > 0

\* line 267 raises ValueError on a malformed date: main ends
BadDate ==
    /\ AtRow
    /\ \E r \in Rows :
        /\ ~DateFieldOk(r.date)
        /\ row' = r
    /\ remaining' = remaining - 1
    /\ pc' = "aborted"
    /\ err' = "ValueError"
    /\ UNCHANGED <<day, rotation, events, written>>

\* lines 269-270: a weekend row is skipped
SkipWeekend ==
    /\ AtRow
    /\ \E r \in Rows :
        /\ DateFieldOk(r.date)
        /\ Weekday(Strptime(r.date)) >= 5
    /\ remaining' = remaining - 1
    /\ UNCHANGED <<pc, row, day, rotation, events, err, written>>

\* lines 273-276: row[3] raises IndexError, which is caught: the row is skipped
SkipMissingNumber ==
    /\ AtRow
    /\ \E r \in Rows :
        /\ DateFieldOk(r.date)
        /\ Weekday(Strptime(r.date)) < 5
        /\ r.number = <<>>
    /\ remaining' = remaining - 1
    /\ UNCHANGED <<pc, row, day, rotation, events, err, written>>

\* line 274: int() raises ValueError, which line 275 does not catch: main ends
BadNumber ==
    /\ AtRow
    /\ \E r \in Rows :
        /\ DateFieldOk(r.date)
        /\ Weekday(Strptime(r.date)) < 5
        /\ r.number # <<>>
        /\ ~IntOk(r.number[1])
        /\ row' = r
    /\ remaining' = remaining - 1
    /\ pc' = "aborted"
    /\ err' = "ValueError"
    /\ UNCHANGED <<day, rotation, events, written>>

\* lines 278-279: the RotationDay of the row
Construct ==
    /\ AtRow
    /\ \E r \in Rows :
        /\ DateFieldOk(r.date)
        /\ Weekday(Strptime(r.date)) < 5
        /\ r.number # <<>>
        /\ IntOk(r.number[1])
        /\ row' = r
        /\ LET number == IntParse(r.number[1])
           IN /\ day' = RotationDayInit(Strptime(r.date), number,
                                        IsOpenVal(r), r.titles)
              /\ rotation' = GetBlockRotation(number)
    /\ remaining' = remaining - 1
    /\ pc' = "constructed"
    /\ UNCHANGED <<events, err, written>>

\* line 280: create_blocks returns its list
CreateBlocksReturn ==
    /\ pc = "constructed"
    /\ ~CreateBlocksRaises(day)
    /\ events' = CreateBlocks(day)
    /\ pc' = "created"
    /\ UNCHANGED <<remaining, row, day, rotation, err, written>>

\* line 280: create_blocks raises IndexError (line 210): main ends
CreateBlocksRaise ==
    /\ pc = "constructed"
    /\ CreateBlocksRaises(day)
    /\ pc' = "aborted"
    /\ err' = "IndexError"
    /\ UNCHANGED <<remaining, row, day, rotation, events, written>>

\* lines 280-281: one output row per event, then back to the head of the loop
WriteRows ==
    /\ pc = "created"
    /\ written' = written + Len(events)
    /\ pc' = "loop"
    /\ row' = NoRow
    /\ day' = NoDay
    /\ rotation' = <<>>
    /\ events' = <<>>
    /\ UNCHANGED <<remaining, err>>

\* the reader is exhausted: main returns
Finish ==
    /\ pc = "loop"
    /\ remaining = 0
    /\ pc' = "done"
    /\ UNCHANGED <<remaining, row, day, rotation, events, err, written>>

Next ==
    \/ BadDate
    \/ SkipWeekend
    \/ SkipMissingNumber
    \/ BadNumber
    \/ Construct
    \/ CreateBlocksReturn
    \/ CreateBlocksRaise
    \/ WriteRows
    \/ Finish

Spec == Init /\ [][Next]_vars

(***************************************************************************)
(* Properties.                                                             *)
(***************************************************************************)
\* the states in which day is the RotationDay of the current row
HasDay ==
    \/ pc \in {"constructed", "created"}
    \/ pc = "aborted" /\ err = "IndexError"

BlockSet == {BLOCKS[i] : i \in 1..N}

\* the circular block order A, B, ..., G the rotation walks through
CircularOrder ==
    <<"A Block", "B Block", "C Block", "D Block", "E Block", "F Block",
      "G Block">>

IsInjective(seq) ==
    \A i, j \in 1..Len(seq) : seq[i] = seq[j] => i = j

\* C1: for every day_number in 1..N the rotation returned by
\* _get_block_rotation holds exactly N-1 block names, all distinct and all
\* from BLOCKS: exactly one block is omitted, on day N too.
C1_ExactlyOneOmitted ==
    (HasDay /\ day.day_number \in 1..N) =>
        /\ Len(rotation) = N - 1
        /\ IsInjective(rotation)
        /\ \A i \in 1..Len(rotation) : rotation[i] \in BlockSet

\* C2: for every weekday date and day_number in 1..N the period sequence has
\* (N-1)+5 entries on a non-Wednesday and (N-1)+4 on a Wednesday, which is
\* the length of the day's time table, so create_blocks never indexes the
\* table out of range.
C2_LengthMatchesTable ==
    /\ (HasDay /\ day.day_number \in 1..N) =>
        /\ Len(day.blocks) = (IF day.is_wednesday THEN (N - 1) + 4 ELSE (N - 1) + 5)
        /\ Len(day.blocks) = Len(TimesOf(day))
    /\ (pc = "aborted" /\ err = "IndexError") => day.day_number \notin 1..N

\* the list the claim C3 describes for day d: the circular order read from
\* the block after the omitted one, the omitted block moving one step back
\* per day (day 1 omits G, day 2 omits F, ...)
CircularFrom(d) ==
    LET omitted == N + 1 - d
    IN [i \in 1..(N - 1) |-> CircularOrder[((omitted + i - 1) % N) + 1]]

\* C3: for every day_number in 1..N the rotation is the circular order
\* A..G read from the block after the omitted block, every other block once;
\* day 1 gives A..F, day 2 gives G,A..E, and so on.
C3_CircularOrder ==
    (HasDay /\ day.day_number \in 1..N) => rotation = CircularFrom(day.day_number)

\* C4: for every positive day_number d the rotation of d and of d+N are the
\* same list.
C4_Periodic ==
    (HasDay /\ day.day_number >= 1) =>
        rotation = GetBlockRotation(day.day_number + N)

\* C5: a day_number <= 0 is rejected: no RotationDay is ever constructed
\* with it, so no block list comes from negative-index wrap-around.
C5_NonPositiveRejected ==
    HasDay => day.day_number > 0

\* a row main cannot parse: a malformed date or a rotation number that is
\* no integer
BadRow(r) ==
    \/ ~DateFieldOk(r.date)
    \/ r.number # <<>> /\ ~IntOk(r.number[1])

\* C6: a row with a malformed date or a non-integer rotation number is
\* skipped silently; the run does not abort on it and goes on to the later
\* rows.
C6_BadRowSkipped ==
    (row # NoRow /\ BadRow(row)) => pc # "aborted"

\* the entries of seq at the Python positions outside fixed, in order
OtherEntries(seq, fixed) ==
    LET positions == SelectSeq([i \in 1..Len(seq) |-> i - 1],
                               LAMBDA q : q \notin fixed)
    IN [i \in 1..Len(positions) |-> seq[positions[i] + 1]]

\* the layout of day.blocks with the MS-lunch period at position ms and the
\* US-lunch period at position us: morning help at 0, Break at 3, on
\* non-Wednesdays the electives period last, the rotation everywhere else
LayoutAt(ms, us) ==
    LET b == day.blocks
        weekday == Weekday(day.date)
        last == Len(b) - 1
        fixed == {0, 3, ms, us} \cup (IF day.is_wednesday THEN {} ELSE {last})
    IN /\ b[0 + 1] = "MS Advisory | US Morning Help"
       /\ b[3 + 1] = "Break"
       /\ b[ms + 1] = "MS Lunch | US " \o US_ACTIVITIES[weekday + 1]
       /\ b[us + 1] = "US Lunch | MS " \o MS_ACTIVITIES[weekday + 1]
       /\ ~day.is_wednesday => b[last + 1] = "MS Electives | US Academic Help"
       /\ day.is_wednesday => b[last + 1] \in BlockSet
       /\ OtherEntries(b, fixed) = rotation

\* C7 as stated: for every weekday date and day_number in 1..N the period
\* sequence has morning help at position 0, Break at 3, MS lunch at 5, US
\* lunch at 6, on non-Wednesdays the electives period last, and the academic
\* blocks in rotation order everywhere else.
C7_LayoutAsStated ==
    (HasDay /\ day.day_number \in 1..N) => LayoutAt(5, 6)

\* C7 (amended): the same layout with the MS-lunch period at position 6 and
\* the US-lunch period at position 7 (the Break inserted last at position 3
\* moves both lunches one position up).
C7_Layout ==
    (HasDay /\ day.day_number \in 1..N) => LayoutAt(6, 7)

C7_Witness ==
    /\ pc = "constructed"
    /\ day.day_number = 3
    /\ day.is_wednesday
    /\ day.blocks[6 + 1] = "MS Lunch | US Academic Help"
    /\ day.blocks[7 + 1] = "US Lunch | MS MFW"
    /\ Len(day.blocks) = 10

\* the all-day events of the non-empty titles the row supplies, in order
TitleEvents ==
    LET kept == SelectSeq(row.titles, LAMBDA t : t # "")
    IN [i \in 1..Len(kept) |-> Event(kept[i], day.date, day.date, TRUE)]

\* one timed event per period of day.blocks, timed by the entry of the
\* weekday type's table at the same position
PeriodEvents ==
    LET times == IF Weekday(day.date) = 2 THEN WED_TIMES ELSE REG_TIMES
    IN [i \in 1..Len(day.blocks) |->
           Event(day.blocks[i],
                 [ordinal |-> day.date.ordinal, hour |-> times[i][1].hour,
                  minute |-> times[i][1].minute],
                 [ordinal |-> day.date.ordinal, hour |-> times[i][2].hour,
                  minute |-> times[i][2].minute],
                 FALSE)]

\* C8: on an open weekday with day_number d in 1..N create_blocks returns the
\* all-day events of the non-empty supplied titles in order, then the
\* all-day event "Day d", then one timed event per period in sequence order,
\* the i-th named by the i-th period and timed by the i-th table entry.
C8_EventsOfOpenDay ==
    (/\ pc \in {"created", "aborted"}
     /\ HasDay
     /\ day.is_open
     /\ day.day_number \in 1..N) =>
        /\ pc = "created"
        /\ events = TitleEvents
                    \o <<Event("Day " \o ToString(day.day_number),
                               day.date, day.date, TRUE)>>
                    \o PeriodEvents

\* C9: on a closed weekday create_blocks returns only the all-day events of
\* the non-empty supplied titles (no "Day N" event, no timed event) and
\* raises no error, whatever the integer rotation number.
C9_ClosedDay ==
    (HasDay /\ ~day.is_open) =>
        /\ pc # "aborted"
        /\ pc = "created" =>
            /\ events = TitleEvents
            /\ \A i \in 1..Len(events) :
                /\ events[i].all_day
                /\ events[i].name # "Day " \o ToString(day.day_number)

C9_Witness ==
    /\ pc = "created"
    /\ ~day.is_open
    /\ day.day_number \notin 1..N
    /\ row.open = "TRUE"
    /\ Len(events) = 2

\* the second slicing formulation of the rotation:
\* blocks[(n-1-d)%n+1:] + blocks[:(n-1-d)%n]
AltRotation(blocks, d) ==
    LET n == Len(blocks)
        k == (n - 1 - d) % n
    IN PySlice(blocks, Some(k + 1), None, 1) \o PySlice(blocks, None, Some(k), 1)

TimedOf(evs) == SelectSeq(evs, LAMBDA e : ~e.all_day)

\* minutes since midnight of a datetime
MinuteOfDay(t) == t.hour * 60 + t.minute

\* whether datetime s is before datetime t
Before(s, t) ==
    \/ s.ordinal < t.ordinal
    \/ s.ordinal = t.ordinal /\ MinuteOfDay(s) < MinuteOfDay(t)

\* C11: on every open weekday (Wednesday or not) with day_number in 1..N-1
\* the timed events create_blocks returns are in chronological order and do
\* not overlap: each starts strictly before it ends, each starts at or after
\* the end of the one before it, and all lie on the day's own date.
C11_TimedEventsOrdered ==
    (pc = "created" /\ day.is_open /\ day.day_number \in 1..(N - 1)) =>
        LET timed == TimedOf(events)
        IN /\ \A i \in 1..Len(timed) :
                /\ Before(timed[i].start, timed[i].end)
                /\ timed[i].start.ordinal = day.date.ordinal
                /\ timed[i].end.ordinal = day.date.ordinal
           /\ \A i \in 2..Len(timed) :
                ~Before(timed[i].start, timed[i - 1].end)

C11_Witness ==
    /\ pc = "created"
    /\ day.is_open
    /\ day.is_wednesday
    /\ day.day_number = N - 1
    /\ Len(TimedOf(events)) = Len(WED_TIMES)
    /\ TimedOf(events)[1].end = TimedOf(events)[2].start

====
